---- MODULE Spec2Model ----
(***************************************************************************)
(* Model of the unified RFP workflow (src/unified_workflow.py), of the     *)
(* retrieval and pricing code it calls (src/Technichal_Agent-main/query.py,*)
(* src/pricing_agent/*.py, src/Sales-agent-main/agents/response_agent.py)  *)
(* and of the job table of src/api_server.py.                              *)
(*                                                                         *)
(* Python dicts are functions whose DOMAIN is the set of keys present;     *)
(* the empty dict is the function with the empty domain.  Python None is   *)
(* the string "None".  Texts are atoms; what the code does with a text     *)
(* (lower(), substring tests, slicing) is given by tables over the atoms.  *)
(*                                                                         *)
(* Spec     : the execution of the StateGraph compiled by _build_graph on  *)
(*            the initial state that run() builds.                         *)
(* SpecRun  : the API server's job table and its background tasks, which   *)
(*            call run() on the workflow instance as __init__ leaves it.   *)
(* SpecReview : the job table with the scraping jobs as well, for the      *)
(*            approval and PDF requests.                                   *)
(* SpecPricing, SpecSearch : calls of the pricing agent's functions and of *)
(*            search_cables on their own.                                  *)
(* SpecConcurrent : several runs inside package_output_node.               *)
(***************************************************************************)
EXTENDS Integers, Sequences, FiniteSets, TLC

VARIABLES
    state,                 \* the WorkflowState dict handed from node to node
    pc,                    \* the node the graph runs next; "END", "raised"
    history,               \* the values current_stage has taken, in order
    failed,                \* the nodes whose logic raised
    gathered,              \* all_matches of spec_match_node when its try-body ended
    sink,                  \* rfp_final_response.json
    returned,              \* what the invocation handed back
    jobs,                  \* api_server.jobs
    tasks,                 \* background tasks: run_workflow(job_id, rfp_urls)
    now,                   \* the wall clock
    runs,                  \* the calls of workflow.run() that have ended
    call                   \* a call of a pricing-agent function: arguments and outcome

vars == <<state, pc, history, failed, gathered, sink, returned,
          jobs, tasks, now, runs, call>>

pipeVars == <<state, pc, history, failed, gathered, sink, returned>>
apiVars == <<jobs, tasks, now, runs>>

----------------------------------------------------------------------------
(* Bounds *)

\* longest lead list a collaborator hands back
MaxLeads == 2
\* most lines of a technical_table handed to the pricing agent
MaxLines == 2
\* most candidates in a line's "recommended" list
MaxCands == 2
\* most names in rfp_summary["tests"]
MaxTests == 2
\* most records in the embeddings file
MaxRecords == 3
\* largest top_k handed to search_cables
MaxK == 3
\* largest clock reading (datetime.now().timestamp()) of the API server
MaxClock == 2
\* most process-rfp requests accepted
MaxRequests == 2

----------------------------------------------------------------------------
(* Python values *)

None == "None"
EmptyDict == [k \in {} |-> None]
\* None where a list of URLs is expected (rfp_urls: List[str] = None): a value that
\* is no list of URLs and that compares with lists
NoUrls == <<None>>

\* dict.get(k, default)
Get(d, k, default) == IF k \in DOMAIN d THEN d[k] ELSE default

\* {**d, k1: v1, k2: v2}
Merge(d, e) == [k \in DOMAIN d \cup DOMAIN e |-> IF k \in DOMAIN e THEN e[k] ELSE d[k]]

Ok(v) == [ok |-> TRUE, val |-> v]
Raise(m) == [ok |-> FALSE, msg |-> m]

SeqsUpTo(S, n) == UNION {[1..m -> S] : m \in 0..n}

----------------------------------------------------------------------------
(* Leads *)

Lead1 == [title |-> "T1", due_date |-> "D1", link |-> "U1",
          description |-> "Supply of POWER Cables", summary |-> "S1"]
\* a lead whose description is null and that has no summary
Lead2 == [title |-> "T2", due_date |-> "D2", link |-> "U2",
          description |-> None]
Leads == {Lead1, Lead2}
LeadLists == SeqsUpTo(Leads, MaxLeads)

DEFAULT_URLS == <<"etenders", "tenders", "gem", "tenderwizard", "rfpdb", "findrfp", "globaltenders">>

\* What a collaborator of agents/rfp_scraper.py and agents/sales_agent.py can do:
\* return a value or raise.  Leads are created by discovery only: the filter hands
\* back some of the leads it was given, in their order; the summarizer hands back
\* the leads it was given, each with or without a summary added; the selector hands
\* back one of the leads it was given.  Exception messages are pairs <<type, text>>.
CollabMsg == <<"Exception", "upstream failure">>

Masks(s) == [1..Len(s) -> BOOLEAN]

RECURSIVE Keep(_, _, _)
Keep(s, mask, i) ==
    IF i > Len(s) THEN <<>>
    ELSE (IF mask[i] THEN <<s[i]>> ELSE <<>>) \o Keep(s, mask, i + 1)

Annotate(lead) == IF "summary" \in DOMAIN lead THEN lead
                  ELSE Merge(lead, [summary |-> "LLM summary"])

ScrapeOutcomes == {Ok(l) : l \in LeadLists} \cup {Raise(CollabMsg)}
FilterOutcomes(all_rfps) ==
    {Ok(Keep(all_rfps, m, 1)) : m \in Masks(all_rfps)} \cup {Raise(CollabMsg)}
SummarizeOutcomes(filtered) ==
    {Ok([i \in 1..Len(filtered) |-> IF m[i] THEN Annotate(filtered[i]) ELSE filtered[i]]) :
        m \in Masks(filtered)} \cup {Raise(CollabMsg)}
SelectOutcomes(summarized) ==
    {Ok(summarized[i]) : i \in 1..Len(summarized)} \cup {Raise(CollabMsg)}

----------------------------------------------------------------------------
(* Stages 1-4 *)

AppendError(st, prefix, msg) == [st EXCEPT !.errors = Append(@, <<prefix, msg>>)]

\* try-body of scrape_rfps_node
scrape_try(st, out) ==
    IF out.ok THEN [raised |-> FALSE, st |-> [st EXCEPT !.all_rfps = out.val]]
    ELSE [raised |-> TRUE, st |-> st, msg |-> out.msg]

\* faulty variant: the except branch falls back to the URL list instead of the empty list
scrape_rfps_node_wrong_fallback(st, out) ==
    LET s1 == [st EXCEPT !.current_stage = "scraping"]
        t == scrape_try(s1, out)
    IN IF ~t.raised THEN t.st
       ELSE [AppendError(t.st, "Scraping error", t.msg) EXCEPT !.all_rfps = t.st.rfp_urls]

scrape_rfps_node(st, out) ==
    LET s1 == [st EXCEPT !.current_stage = "scraping"]
        t == scrape_try(s1, out)
    IN IF ~t.raised THEN t.st
       ELSE [AppendError(t.st, "Scraping error", t.msg) EXCEPT !.all_rfps = <<>>]

filter_try(st, out) ==
    IF out.ok THEN [raised |-> FALSE, st |-> [st EXCEPT !.filtered_rfps = out.val]]
    ELSE [raised |-> TRUE, st |-> st, msg |-> out.msg]

\* faulty variant: the except branch applies the fallback without logging the error
filter_rfps_node_silent(st, out) ==
    LET s1 == [st EXCEPT !.current_stage = "filtering"]
        t == filter_try(s1, out)
    IN IF ~t.raised THEN t.st
       ELSE [t.st EXCEPT !.filtered_rfps = t.st.all_rfps]

filter_rfps_node(st, out) ==
    LET s1 == [st EXCEPT !.current_stage = "filtering"]
        t == filter_try(s1, out)
    IN IF ~t.raised THEN t.st
       ELSE [AppendError(t.st, "Filtering error", t.msg) EXCEPT !.filtered_rfps = t.st.all_rfps]

summarize_try(st, out) ==
    IF out.ok THEN [raised |-> FALSE, st |-> [st EXCEPT !.summarized_rfps = out.val]]
    ELSE [raised |-> TRUE, st |-> st, msg |-> out.msg]

\* faulty variant: the except branch falls back to the empty list
summarize_rfps_node_drops(st, out) ==
    LET s1 == [st EXCEPT !.current_stage = "summarizing"]
        t == summarize_try(s1, out)
    IN IF ~t.raised THEN t.st
       ELSE [AppendError(t.st, "Summarization error", t.msg) EXCEPT !.summarized_rfps = <<>>]

summarize_rfps_node(st, out) ==
    LET s1 == [st EXCEPT !.current_stage = "summarizing"]
        t == summarize_try(s1, out)
    IN IF ~t.raised THEN t.st
       ELSE [AppendError(t.st, "Summarization error", t.msg)
                EXCEPT !.summarized_rfps = t.st.filtered_rfps]

select_try(st, out) ==
    IF st.summarized_rfps = <<>>
    THEN [raised |-> TRUE, st |-> st, msg |-> <<"ValueError", "No RFPs available for selection">>]
    ELSE IF out.ok THEN [raised |-> FALSE, st |-> [st EXCEPT !.selected_rfp = out.val]]
    ELSE [raised |-> TRUE, st |-> st, msg |-> out.msg]

\* faulty variant: the except branch falls back to the last lead
select_best_rfp_node_last(st, out) ==
    LET s1 == [st EXCEPT !.current_stage = "selection"]
        t == select_try(s1, out)
    IN IF ~t.raised THEN t.st
       ELSE [AppendError(t.st, "Selection error", t.msg)
                EXCEPT !.selected_rfp = IF t.st.summarized_rfps # <<>>
                                        THEN t.st.summarized_rfps[Len(t.st.summarized_rfps)]
                                        ELSE EmptyDict]

select_best_rfp_node(st, out) ==
    LET s1 == [st EXCEPT !.current_stage = "selection"]
        t == select_try(s1, out)
    IN IF ~t.raised THEN t.st
       ELSE [AppendError(t.st, "Selection error", t.msg)
                EXCEPT !.selected_rfp = IF t.st.summarized_rfps # <<>>
                                        THEN t.st.summarized_rfps[1] ELSE EmptyDict]

----------------------------------------------------------------------------
(* Texts: str.lower() and the substring test `kw in text`, on the texts used *)

lower(text) ==
    CASE text = "Supply of POWER Cables" -> "supply of power cables"
      [] text = "Office Chairs" -> "office chairs"
      [] OTHER -> text

Tokens(text) ==
    CASE text = "Supply of POWER Cables" -> <<"Supply", "of", "POWER", "Cables">>
      [] text = "supply of power cables" -> <<"supply", "of", "power", "cables">>
      [] text = "Office Chairs" -> <<"Office", "Chairs">>
      [] text = "office chairs" -> <<"office", "chairs">>
      [] OTHER -> <<>>

\* kw is a substring of the word w
WordHas(w, kw) == w = kw \/ <<w, kw>> \in {<<"cables", "cable">>, <<"wires", "wire">>}

\* kw in text
Contains(text, kw) == \E i \in DOMAIN Tokens(text) : WordHas(Tokens(text)[i], kw)

keywords == <<"cable", "wire", "conductor", "power", "electrical", "voltage">>

QueryHigh == "high current rating cables for industrial use"
QuerySize == "1.5 sq mm to 10 sq mm electrical cables"
QueryHeavy == "heavy duty power cables with insulation"
QueryGeneric == "general purpose electrical cables"
Queries == {QueryHigh, QuerySize, QueryHeavy, QueryGeneric}

\* description.lower() raises AttributeError when the description is None
extract_product_requirements(description) ==
    IF description = None
    THEN Raise(<<"AttributeError", "'NoneType' object has no attribute 'lower'">>)
    ELSE LET description_lower == lower(description)
             queries == IF \E i \in DOMAIN keywords : Contains(description_lower, keywords[i])
                        THEN <<QueryHigh, QuerySize, QueryHeavy>>
                        ELSE <<QueryGeneric>>
         IN Ok(IF queries # <<>> THEN queries ELSE <<"electrical cables and wires">>)

----------------------------------------------------------------------------
(* The similarity index: query.py *)

\* catalogue records of the embeddings file; Rec4 was stored without an embedding
Rec1 == [id |-> 1, conductor_nominal_area_mm2 |-> 15, current_rating_amps |-> 20,
         approx_overall_diameter_mm |-> 3, overall_weight_kg_per_km |-> 40, embedding |-> "e1"]
Rec2 == [id |-> 2, conductor_nominal_area_mm2 |-> 25, current_rating_amps |-> 27,
         approx_overall_diameter_mm |-> 4, overall_weight_kg_per_km |-> 55, embedding |-> "e2"]
Rec3 == [id |-> 3, conductor_nominal_area_mm2 |-> 100, current_rating_amps |-> 60,
         approx_overall_diameter_mm |-> 7, overall_weight_kg_per_km |-> 150, embedding |-> "e3"]
Rec4 == [id |-> 4, conductor_nominal_area_mm2 |-> 40, current_rating_amps |-> 35]

\* cosine similarity of model.encode(query) and a record embedding, in hundredths
cosine_similarity(query, embedding) ==
    CASE embedding = "e1" -> IF query = QueryGeneric THEN 40 ELSE 90
      [] embedding = "e2" -> 90
      [] embedding = "e3" -> IF query = QueryGeneric THEN 90 ELSE 40
      [] OTHER -> 0

\* contents of havells_catalogue_with_embeddings.json: absent, unparsable, or parsed
FileMissing == [exists |-> FALSE]
FileCorrupt == [exists |-> TRUE, parses |-> FALSE]
File(recs) == [exists |-> TRUE, parses |-> TRUE,
               json |-> [records |-> recs, total_records |-> Len(recs)]]

load_embeddings(file) ==
    IF ~file.exists THEN [records |-> <<>>, total_records |-> 0]
    ELSE IF ~file.parses THEN [records |-> <<>>, total_records |-> 0]
    ELSE file.json

\* list.sort(key=score, reverse=True): stable, equal scores keep their list order
RECURSIVE InsertDesc(_, _)
InsertDesc(x, sorted) ==
    IF sorted = <<>> THEN <<x>>
    ELSE IF Head(sorted)[1] >= x[1] THEN <<Head(sorted)>> \o InsertDesc(x, Tail(sorted))
    ELSE <<x>> \o sorted

RECURSIVE SortDesc(_)
SortDesc(s) == IF s = <<>> THEN <<>> ELSE InsertDesc(s[Len(s)], SortDesc(SubSeq(s, 1, Len(s) - 1)))

RECURSIVE Similarities(_, _)
Similarities(query, records) ==
    IF records = <<>> THEN <<>>
    ELSE LET record == Head(records)
             rest == Similarities(query, Tail(records))
         IN IF "embedding" \notin DOMAIN record THEN rest
            ELSE <<<<cosine_similarity(query, record.embedding), record>>>> \o rest

Take(s, k) == SubSeq(s, 1, IF k < Len(s) THEN k ELSE Len(s))

\* faulty variant: model.encode(query) runs before the records are looked at
search_cables_encodes_first(query, top_k, available, env) ==
    IF ~available THEN Ok(<<>>)
    ELSE IF ~env.encode_ok THEN Raise(<<"RuntimeError", "encode failed">>)
    ELSE LET data == load_embeddings(env.file)
         IN IF Get(data, "records", <<>>) = <<>> THEN Ok(<<>>)
            ELSE Ok(Take(SortDesc(Similarities(query, data.records)), top_k))

\* available: EMBEDDINGS_AVAILABLE and model is not None (sentence-transformers was
\* imported when the process started); env.file: the embeddings file as this call
\* reads it; env.encode_ok: model.encode returns
search_cables(query, top_k, available, env) ==
    IF ~available THEN Ok(<<>>)
    ELSE LET data == load_embeddings(env.file)
         IN IF Get(data, "records", <<>>) = <<>> THEN Ok(<<>>)
            ELSE IF ~env.encode_ok THEN Raise(<<"RuntimeError", "encode failed">>)
            ELSE Ok(Take(SortDesc(Similarities(query, data.records)), top_k))

----------------------------------------------------------------------------
(* Stage 5 *)

MatchEntry(query, score, record) ==
    [query |-> query,
     match_score |-> score,
     product |-> [conductor_area_mm2 |-> Get(record, "conductor_nominal_area_mm2", None),
                  current_rating_amps |-> Get(record, "current_rating_amps", None),
                  diameter_mm |-> Get(record, "approx_overall_diameter_mm", None),
                  weight_kg_per_km |-> Get(record, "overall_weight_kg_per_km", None)],
     recommendation |-> <<Get(record, "conductor_nominal_area_mm2", None),
                          Get(record, "current_rating_amps", None)>>]

RECURSIVE MatchEntries(_, _)
MatchEntries(query, matches) ==
    IF matches = <<>> THEN <<>>
    ELSE <<MatchEntry(query, Head(matches)[1], Head(matches)[2])>>
            \o MatchEntries(query, Tail(matches))

\* faulty variant: each query's matches are put in front of those gathered so far
RECURSIVE search_loop_prepends(_, _, _, _, _)
search_loop_prepends(queries, i, all_matches, available, envs) ==
    IF i > Len(queries) THEN Ok(all_matches)
    ELSE LET matches == search_cables(queries[i], 3, available, envs[i])
         IN IF ~matches.ok THEN [ok |-> FALSE, msg |-> matches.msg, partial |-> all_matches]
            ELSE search_loop_prepends(queries, i + 1,
                                      MatchEntries(queries[i], matches.val) \o all_matches,
                                      available, envs)

\* the loop over queries[:5], from query i on; all_matches gathered so far
RECURSIVE search_loop(_, _, _, _, _)
search_loop(queries, i, all_matches, available, envs) ==
    IF i > Len(queries) THEN Ok(all_matches)
    ELSE LET matches == search_cables(queries[i], 3, available, envs[i])
         IN IF ~matches.ok THEN [ok |-> FALSE, msg |-> matches.msg, partial |-> all_matches]
            ELSE search_loop(queries, i + 1,
                             all_matches \o MatchEntries(queries[i], matches.val),
                             available, envs)

spec_match_try(st, available, envs) ==
    LET selected_rfp == st.selected_rfp
        description == Get(selected_rfp, "description", "")
        queries == extract_product_requirements(description)
    IN IF ~queries.ok
       THEN [raised |-> TRUE, st |-> st, msg |-> queries.msg, all_matches |-> <<>>]
       ELSE LET s1 == [st EXCEPT !.product_requirements = queries.val]
                res == search_loop(Take(queries.val, 5), 1, <<>>, available, envs)
            IN IF ~res.ok
               THEN [raised |-> TRUE, st |-> s1, msg |-> res.msg, all_matches |-> res.partial]
               ELSE [raised |-> FALSE, st |-> [s1 EXCEPT !.spec_matches = res.val],
                     all_matches |-> res.val]

\* faulty variant: the except branch keeps the matches gathered before the fault
spec_match_node_keeps_partial(st, available, envs) ==
    LET s1 == [st EXCEPT !.current_stage = "spec_matching"]
        t == spec_match_try(s1, available, envs)
    IN IF ~t.raised THEN t.st
       ELSE [AppendError(t.st, "Spec matching error", t.msg)
                EXCEPT !.spec_matches = t.all_matches]

spec_match_node(st, available, envs) ==
    LET s1 == [st EXCEPT !.current_stage = "spec_matching"]
        t == spec_match_try(s1, available, envs)
    IN IF ~t.raised THEN t.st
       ELSE [AppendError(t.st, "Spec matching error", t.msg) EXCEPT !.spec_matches = <<>>]

----------------------------------------------------------------------------
(* The pricing pass: pricing_agent/*.py.  Scores are in hundredths, prices  *)
(* and costs are whole numbers.                                             *)

KeyError(k) == Raise(<<"KeyError", k>>)

\* product_df.loc[product_df["SKU_ID"] == sku]: the matching rows, in sheet order
Rows(df, col, v) == SelectSeq(df, LAMBDA r : r[col] = v)

\* a sheet cell holds a number or a text; float(cell) and int(cell) of a text raise ValueError
Num(n) == [num |-> n]
Text(t) == [text |-> t]
IsNumber(cell) == "num" \in DOMAIN cell

\* faulty variant: the comparison is >=, so the last of several equal scores wins
RECURSIVE process_recommended_last_on_tie(_, _, _, _, _, _, _)
process_recommended_last_on_tie(recommended, i, quantity, product_df, pricing, best_match, highest_spec) ==
    IF i > Len(recommended)
    THEN Ok([recommended_pricing |-> pricing, best_match |-> best_match])
    ELSE LET rec == recommended[i] IN
         IF "sku" \notin DOMAIN rec THEN KeyError("sku")
         ELSE IF "spec_match" \notin DOMAIN rec THEN KeyError("spec_match")
         ELSE LET sku == rec.sku
                  spec_match == rec.spec_match
                  row == Rows(product_df, "SKU_ID", sku)
              IN IF row = <<>>
                 THEN process_recommended_last_on_tie(recommended, i + 1, quantity, product_df,
                                                      pricing, best_match, highest_spec)
                 ELSE IF ~IsNumber(row[1].Base_Price)
                 THEN Raise(<<"ValueError", "could not convert string to float">>)
                 ELSE LET base_price == row[1].Base_Price.num
                          total_price == base_price * quantity
                          entry == [sku |-> sku, spec_match |-> spec_match,
                                    product_name |-> row[1].Product_Name,
                                    base_price |-> base_price,
                                    unit |-> row[1].Unit_of_Measure,
                                    product_type |-> row[1].Product_Type,
                                    total_price |-> total_price]
                          better == spec_match >= highest_spec
                      IN process_recommended_last_on_tie(recommended, i + 1, quantity,
                             product_df, Append(pricing, entry),
                             IF better THEN [sku |-> sku, total_price |-> total_price]
                                       ELSE best_match,
                             IF better THEN spec_match ELSE highest_spec)

\* the loop over line["recommended"], from candidate i on; best_match = None is
\* the empty dict here (both are false in `if best_match`); highest_spec starts at -1
RECURSIVE process_recommended(_, _, _, _, _, _, _)
process_recommended(recommended, i, quantity, product_df, pricing, best_match, highest_spec) ==
    IF i > Len(recommended)
    THEN Ok([recommended_pricing |-> pricing, best_match |-> best_match])
    ELSE LET rec == recommended[i] IN
         IF "sku" \notin DOMAIN rec THEN KeyError("sku")
         ELSE IF "spec_match" \notin DOMAIN rec THEN KeyError("spec_match")
         ELSE LET sku == rec.sku
                  spec_match == rec.spec_match
                  row == Rows(product_df, "SKU_ID", sku)
              IN IF row = <<>>
                 THEN process_recommended(recommended, i + 1, quantity, product_df,
                                          pricing, best_match, highest_spec)
                 ELSE IF ~IsNumber(row[1].Base_Price)
                 THEN Raise(<<"ValueError", "could not convert string to float">>)
                 ELSE LET base_price == row[1].Base_Price.num
                          total_price == base_price * quantity
                          entry == [sku |-> sku, spec_match |-> spec_match,
                                    product_name |-> row[1].Product_Name,
                                    base_price |-> base_price,
                                    unit |-> row[1].Unit_of_Measure,
                                    product_type |-> row[1].Product_Type,
                                    total_price |-> total_price]
                          better == spec_match > highest_spec
                      IN process_recommended(recommended, i + 1, quantity, product_df,
                             Append(pricing, entry),
                             IF better THEN [sku |-> sku, total_price |-> total_price]
                                       ELSE best_match,
                             IF better THEN spec_match ELSE highest_spec)

\* the loop over technical_table, from line i on
RECURSIVE process_lines(_, _, _, _, _)
process_lines(technical_table, i, product_df, pricing_table, total_material_cost) ==
    IF i > Len(technical_table)
    THEN Ok([pricing_table |-> pricing_table, total_material_cost |-> total_material_cost])
    ELSE LET line == technical_table[i] IN
         IF "line_id" \notin DOMAIN line THEN KeyError("line_id")
         ELSE IF "scope_item" \notin DOMAIN line THEN KeyError("scope_item")
         ELSE IF "quantity" \notin DOMAIN line THEN KeyError("quantity")
         ELSE IF "recommended" \notin DOMAIN line THEN KeyError("recommended")
         ELSE LET r == process_recommended(line.recommended, 1, line.quantity, product_df,
                                           <<>>, EmptyDict, -100)
              IN IF ~r.ok THEN r
                 ELSE LET base == [line_id |-> line.line_id, scope_item |-> line.scope_item,
                                   quantity |-> line.quantity,
                                   recommended_pricing |-> r.val.recommended_pricing]
                          best_match == r.val.best_match
                          line_entry == IF best_match # EmptyDict
                                        THEN Merge(base, [included_sku |-> best_match.sku,
                                                          included_total_price |-> best_match.total_price])
                                        ELSE base
                      IN process_lines(technical_table, i + 1, product_df,
                                       Append(pricing_table, line_entry),
                                       IF best_match # EmptyDict
                                       THEN total_material_cost + best_match.total_price
                                       ELSE total_material_cost)

\* faulty variant: a line without an included SKU is left out of the pricing table
process_products_drops_unpriced(technical_table, product_df) ==
    LET r == process_lines(technical_table, 1, product_df, <<>>, 0)
    IN IF ~r.ok THEN r
       ELSE Ok([r.val EXCEPT !.pricing_table =
                   SelectSeq(@, LAMBDA e : "included_sku" \in DOMAIN e)])

\* faulty variant: total_material_cost is assigned, not added to, at each included line
process_products_keeps_last_total(technical_table, product_df) ==
    LET r == process_lines(technical_table, 1, product_df, <<>>, 0)
        included == IF r.ok THEN SelectSeq(r.val.pricing_table,
                                           LAMBDA e : "included_sku" \in DOMAIN e)
                    ELSE <<>>
    IN IF ~r.ok THEN r
       ELSE Ok([r.val EXCEPT !.total_material_cost =
                   IF included = <<>> THEN 0
                   ELSE included[Len(included)].included_total_price])

\* faulty variant: recommended_pricing lists the included candidate only
process_products_lists_included_only(technical_table, product_df) ==
    LET r == process_lines(technical_table, 1, product_df, <<>>, 0)
    IN IF ~r.ok THEN r
       ELSE Ok([r.val EXCEPT !.pricing_table =
                   [i \in DOMAIN @ |->
                       [@[i] EXCEPT !.recommended_pricing =
                           SelectSeq(@, LAMBDA c : c.sku = Get(r.val.pricing_table[i],
                                                               "included_sku", None))]]])

process_products(technical_table, product_df) ==
    process_lines(technical_table, 1, product_df, <<>>, 0)

RECURSIVE process_tests_from(_, _, _, _, _)
process_tests_from(test_list, i, test_df, matched_tests, total_test_cost) ==
    IF i > Len(test_list)
    THEN Ok([matched_tests |-> matched_tests, total_test_cost |-> total_test_cost])
    ELSE LET test_name == test_list[i]
             row == Rows(test_df, "Test_Name", test_name)
         IN IF row = <<>>
            THEN process_tests_from(test_list, i + 1, test_df, matched_tests, total_test_cost)
            ELSE IF ~IsNumber(row[1].Unit_Cost) \/ ~IsNumber(row[1].Duration)
            THEN Raise(<<"ValueError", "could not convert cell">>)
            ELSE LET info == [test_name |-> test_name, test_type |-> row[1].Test_Type,
                              unit_cost |-> row[1].Unit_Cost.num,
                              duration_days |-> row[1].Duration.num]
                 IN process_tests_from(test_list, i + 1, test_df,
                                       Append(matched_tests, info),
                                       total_test_cost + info.unit_cost)

\* faulty variant: total_test_cost is assigned, not added to, at each matched test
process_tests_keeps_last_cost(test_list, test_df) ==
    LET r == process_tests_from(test_list, 1, test_df, <<>>, 0)
    IN IF ~r.ok THEN r
       ELSE Ok([r.val EXCEPT !.total_test_cost =
                   IF r.val.matched_tests = <<>> THEN 0
                   ELSE r.val.matched_tests[Len(r.val.matched_tests)].unit_cost])

process_tests(test_list, test_df) == process_tests_from(test_list, 1, test_df, <<>>, 0)

\* faulty variant: the overall cost leaves out the tests
build_output_json_material_only(rfp_id, pricing_table, matched_tests, total_material_cost, total_test_cost) ==
    [rfp_id |-> rfp_id,
     pricing_table |-> pricing_table,
     matched_tests |-> matched_tests,
     summary |-> [total_material_cost |-> total_material_cost,
                  total_test_cost |-> total_test_cost,
                  overall_project_cost |-> total_material_cost]]

build_output_json(rfp_id, pricing_table, matched_tests, total_material_cost, total_test_cost) ==
    LET overall_project_cost == total_material_cost + total_test_cost
    IN [rfp_id |-> rfp_id,
        pricing_table |-> pricing_table,
        matched_tests |-> matched_tests,
        summary |-> [total_material_cost |-> total_material_cost,
                     total_test_cost |-> total_test_cost,
                     overall_project_cost |-> overall_project_cost]]

\* Pricing_Data_FMCG.xlsx: absent, or a workbook with the two sheets
WorkbookMissing == [exists |-> FALSE]
Workbook(products, tests) == [exists |-> TRUE, Product_Prices |-> products, Test_Prices |-> tests]

load_reference_data(workbook) ==
    IF ~workbook.exists THEN Raise(<<"FileNotFoundError", "Pricing_Data_FMCG.xlsx">>)
    ELSE Ok([product_df |-> workbook.Product_Prices, test_df |-> workbook.Test_Prices])

\* env.workbook: the price workbook; env.save_ok: pricing_summary.json can be written
run_pricing_agent(input_json, env) ==
    LET rfp_id == Get(input_json, "rfp_id", "Unknown")
        data == load_reference_data(env.workbook)
    IN IF ~data.ok THEN data
       ELSE IF "technical_table" \notin DOMAIN input_json THEN KeyError("technical_table")
       ELSE LET products == process_products(input_json.technical_table, data.val.product_df)
            IN IF ~products.ok THEN products
               ELSE IF "rfp_summary" \notin DOMAIN input_json THEN KeyError("rfp_summary")
               ELSE IF "tests" \notin DOMAIN input_json.rfp_summary THEN KeyError("tests")
               ELSE LET tests == process_tests(input_json.rfp_summary.tests, data.val.test_df)
                    IN IF ~tests.ok THEN tests
                       ELSE IF ~env.save_ok THEN Raise(<<"OSError", "pricing_summary.json">>)
                       ELSE Ok(build_output_json(rfp_id, products.val.pricing_table,
                                                 tests.val.matched_tests,
                                                 products.val.total_material_cost,
                                                 tests.val.total_test_cost))

----------------------------------------------------------------------------
(* Stage 6 *)

pricing_tests == <<"Quality Test", "Performance Test", "Safety Test">>

\* enumerate(spec_matches, 1)
technical_table_of(spec_matches) ==
    [idx \in 1..Len(spec_matches) |->
        [item_no |-> idx,
         description |-> Get(spec_matches[idx], "recommendation", "Product"),
         specifications |-> Get(spec_matches[idx], "product", EmptyDict),
         quantity |-> 1000,
         match_score |-> Get(spec_matches[idx], "match_score", 0)]]

pricing_try(st, env) ==
    LET selected_rfp == st.selected_rfp
        pricing_input == [rfp_id |-> Get(selected_rfp, "title", "Unknown"),
                          technical_table |-> technical_table_of(st.spec_matches),
                          rfp_summary |-> [tests |-> pricing_tests]]
        s1 == [st EXCEPT !.pricing_input = pricing_input]
        pricing_result == run_pricing_agent(pricing_input, env)
    IN IF ~pricing_result.ok THEN [raised |-> TRUE, st |-> s1, msg |-> pricing_result.msg]
       ELSE [raised |-> FALSE, st |-> [s1 EXCEPT !.pricing_result = pricing_result.val]]

FallbackPricing == [total_material_cost |-> 50000, total_test_cost |-> 5000,
                    grand_total |-> 55000, note |-> "Estimated pricing"]

\* faulty variant: the except branch starts a new errors list
pricing_node_resets_errors(st, env) ==
    LET s1 == [st EXCEPT !.current_stage = "pricing"]
        t == pricing_try(s1, env)
    IN IF ~t.raised THEN t.st
       ELSE [t.st EXCEPT !.errors = <<<<"Pricing error", t.msg>>>>,
                         !.pricing_result = FallbackPricing]

\* faulty variant: the estimate's grand total leaves out the test cost
pricing_node_total_without_tests(st, env) ==
    LET s1 == [st EXCEPT !.current_stage = "pricing"]
        t == pricing_try(s1, env)
    IN IF ~t.raised THEN t.st
       ELSE [AppendError(t.st, "Pricing error", t.msg)
                EXCEPT !.pricing_result = [FallbackPricing EXCEPT !.grand_total = 50000]]

pricing_node(st, env) ==
    LET s1 == [st EXCEPT !.current_stage = "pricing"]
        t == pricing_try(s1, env)
    IN IF ~t.raised THEN t.st
       ELSE [AppendError(t.st, "Pricing error", t.msg) EXCEPT !.pricing_result = FallbackPricing]

----------------------------------------------------------------------------
(* Stage 7: response_agent.py and response_node *)

\* a text is the sequence of its pieces (literal parts and interpolated values);
\* the empty text is <<>>
DraftText == <<"Formal email body">>
FailureMarker == <<"Response generation failed">>

\* summary[:600]
Slice600(summary) == summary

\* gemini_ok: model.generate_content(prompt) returns; otherwise the except branch
\* builds the fallback text from rfp.get('summary')[:600], which raises TypeError
\* when the lead has no summary
generate_draft_response(rfp, gemini_ok) ==
    IF gemini_ok THEN Ok(DraftText)
    ELSE IF Get(rfp, "summary", None) = None
    THEN Raise(<<"TypeError", "'NoneType' object is not subscriptable">>)
    ELSE Ok(<<"Draft fallback: We can respond to this RFP. Details: ", Slice600(rfp.summary)>>)

\* {**selected_rfp, "spec_match_count": ..., "total_cost": ...}
enhanced_rfp(st) ==
    LET selected_rfp == st.selected_rfp
        spec_matches == st.spec_matches
        pricing_result == st.pricing_result
    IN Merge(selected_rfp,
             [spec_match_count |-> Len(spec_matches),
              total_cost |-> Get(pricing_result, "grand_total", 0)])

response_try(st, gemini_ok) ==
    LET response == generate_draft_response(enhanced_rfp(st), gemini_ok)
    IN IF ~response.ok THEN [raised |-> TRUE, st |-> st, msg |-> response.msg]
       ELSE [raised |-> FALSE, st |-> [st EXCEPT !.draft_response = response.val]]

\* faulty variant: the except branch logs the error and leaves draft_response as it was
response_node_keeps_draft(st, gemini_ok) ==
    LET s1 == [st EXCEPT !.current_stage = "response_generation"]
        t == response_try(s1, gemini_ok)
    IN IF ~t.raised THEN t.st
       ELSE AppendError(t.st, "Response generation error", t.msg)

\* faulty variant: the node stores the enriched lead back into selected_rfp
response_node_stores_enhanced(st, gemini_ok) ==
    LET s1 == [st EXCEPT !.current_stage = "response_generation"]
        t == response_try(s1, gemini_ok)
        s2 == [t.st EXCEPT !.selected_rfp = enhanced_rfp(s1)]
    IN IF ~t.raised THEN s2
       ELSE [AppendError(s2, "Response generation error", t.msg)
                EXCEPT !.draft_response = FailureMarker]

response_node(st, gemini_ok) ==
    LET s1 == [st EXCEPT !.current_stage = "response_generation"]
        t == response_try(s1, gemini_ok)
    IN IF ~t.raised THEN t.st
       ELSE [AppendError(t.st, "Response generation error", t.msg)
                EXCEPT !.draft_response = FailureMarker]

----------------------------------------------------------------------------
(* Stage 8 *)

\* faulty variant: candidates_found counts the scraped leads
build_final_package_counts_scraped(st, utcnow) ==
    LET selected_rfp == st.selected_rfp
    IN [rfp_details |-> [title |-> Get(selected_rfp, "title", None),
                         due_date |-> Get(selected_rfp, "due_date", None),
                         source |-> Get(selected_rfp, "link", None),
                         summary |-> Get(selected_rfp, "summary", None)],
        spec_matches |-> [count |-> Len(st.spec_matches), products |-> st.spec_matches],
        pricing |-> st.pricing_result,
        draft_response |-> st.draft_response,
        processing_summary |-> [total_rfps_scraped |-> Len(st.all_rfps),
                                candidates_found |-> Len(st.all_rfps),
                                products_matched |-> Len(st.spec_matches),
                                errors |-> st.errors,
                                generated_at |-> utcnow]]

build_final_package(st, utcnow) ==
    LET selected_rfp == st.selected_rfp
    IN [rfp_details |-> [title |-> Get(selected_rfp, "title", None),
                         due_date |-> Get(selected_rfp, "due_date", None),
                         source |-> Get(selected_rfp, "link", None),
                         summary |-> Get(selected_rfp, "summary", None)],
        spec_matches |-> [count |-> Len(st.spec_matches), products |-> st.spec_matches],
        pricing |-> st.pricing_result,
        draft_response |-> st.draft_response,
        processing_summary |-> [total_rfps_scraped |-> Len(st.all_rfps),
                                candidates_found |-> Len(st.filtered_rfps),
                                products_matched |-> Len(st.spec_matches),
                                errors |-> st.errors,
                                generated_at |-> utcnow]]

\* the node up to and including state["final_package"] = final_package (lines 330-356)
package_output_assemble(st, utcnow) ==
    [st EXCEPT !.current_stage = "completed",
               !.final_package = build_final_package(st, utcnow)]

\* rfp_final_response.json after open(output_file, 'w') and json.dump; a write
\* that faults leaves the file truncated
NoFile == <<>>
Truncated == [truncated |-> TRUE]
write_output_file(final_package, write_ok) ==
    IF write_ok THEN Ok(final_package) ELSE Raise(<<"OSError", "rfp_final_response.json">>)

----------------------------------------------------------------------------
(* The compiled graph: nodes and edges of _build_graph *)

Nodes == <<"scrape_rfps", "filter_rfps", "summarize_rfps", "select_best_rfp",
           "spec_match", "calculate_pricing", "generate_response", "package_output">>

entry_point == "scrape_rfps"

\* add_edge(a, b); END ends the invocation
edge(node) ==
    CASE node = "scrape_rfps" -> "filter_rfps"
      [] node = "filter_rfps" -> "summarize_rfps"
      [] node = "summarize_rfps" -> "select_best_rfp"
      [] node = "select_best_rfp" -> "spec_match"
      [] node = "spec_match" -> "calculate_pricing"
      [] node = "calculate_pricing" -> "generate_response"
      [] node = "generate_response" -> "package_output"
      [] node = "package_output" -> "END"

\* initial_state of run()
initial_state(rfp_urls) ==
    [rfp_urls |-> IF rfp_urls # NoUrls /\ rfp_urls # <<>> THEN rfp_urls ELSE DEFAULT_URLS,
     all_rfps |-> <<>>,
     filtered_rfps |-> <<>>,
     summarized_rfps |-> <<>>,
     selected_rfp |-> EmptyDict,
     product_requirements |-> <<>>,
     spec_matches |-> <<>>,
     pricing_input |-> EmptyDict,
     pricing_result |-> EmptyDict,
     draft_response |-> <<>>,
     final_package |-> EmptyDict,
     current_stage |-> "initialized",
     errors |-> <<>>]

IndexFiles == {FileMissing, FileCorrupt, File(<<Rec1, Rec2, Rec3, Rec4>>)}
SearchEnvs == [file : IndexFiles, encode_ok : BOOLEAN]

WorkbookA ==
    Workbook(<<[SKU_ID |-> "SKU-A", Base_Price |-> Num(10), Product_Name |-> "Cable A",
                Unit_of_Measure |-> "m", Product_Type |-> "cable"],
               [SKU_ID |-> "SKU-B", Base_Price |-> Num(12), Product_Name |-> "Cable B",
                Unit_of_Measure |-> "m", Product_Type |-> "cable"]>>,
             <<[Test_Name |-> "Quality Test", Test_Type |-> "routine",
                Unit_Cost |-> Num(100), Duration |-> Num(2)]>>)
PricingEnvs == [workbook : {WorkbookMissing, WorkbookA}, save_ok : BOOLEAN]

\* a node ran: record the stage it set and whether its try-body raised, follow the edge
Step(node, st, didRaise) ==
    /\ state' = st
    /\ history' = Append(history, st.current_stage)
    /\ failed' = IF didRaise THEN failed \cup {node} ELSE failed
    /\ pc' = edge(node)
    /\ UNCHANGED <<sink, returned>>
    /\ UNCHANGED apiVars
    /\ UNCHANGED call

ScrapeRfps ==
    /\ pc = "scrape_rfps"
    /\ \E out \in ScrapeOutcomes :
          /\ Step("scrape_rfps", scrape_rfps_node(state, out), scrape_try(state, out).raised)
          /\ UNCHANGED gathered

FilterRfps ==
    /\ pc = "filter_rfps"
    /\ \E out \in FilterOutcomes(state.all_rfps) :
          /\ Step("filter_rfps", filter_rfps_node(state, out), filter_try(state, out).raised)
          /\ UNCHANGED gathered

SummarizeRfps ==
    /\ pc = "summarize_rfps"
    /\ \E out \in SummarizeOutcomes(state.filtered_rfps) :
          /\ Step("summarize_rfps", summarize_rfps_node(state, out),
                  summarize_try(state, out).raised)
          /\ UNCHANGED gathered

SelectBestRfp ==
    /\ pc = "select_best_rfp"
    /\ \E out \in SelectOutcomes(state.summarized_rfps) :
          /\ Step("select_best_rfp", select_best_rfp_node(state, out),
                  select_try(state, out).raised)
          /\ UNCHANGED gathered

SpecMatch ==
    /\ pc = "spec_match"
    /\ \E EMBEDDINGS_AVAILABLE \in BOOLEAN, envs \in [1..3 -> SearchEnvs] :
          LET t == spec_match_try(state, EMBEDDINGS_AVAILABLE, envs)
          IN /\ Step("spec_match", spec_match_node(state, EMBEDDINGS_AVAILABLE, envs), t.raised)
             /\ gathered' = t.all_matches

CalculatePricing ==
    /\ pc = "calculate_pricing"
    /\ \E env \in PricingEnvs :
          /\ Step("calculate_pricing", pricing_node(state, env), pricing_try(state, env).raised)
          /\ UNCHANGED gathered

GenerateResponse ==
    /\ pc = "generate_response"
    /\ \E gemini_ok \in BOOLEAN :
          /\ Step("generate_response", response_node(state, gemini_ok),
                  response_try(state, gemini_ok).raised)
          /\ UNCHANGED gathered

\* package_output_node has no try/except: a fault of the file write leaves the node
\* as an exception, which invoke() and run() pass on to the caller
PackageOutput ==
    /\ pc = "package_output"
    /\ \E write_ok \in BOOLEAN :
          LET st == package_output_assemble(state, now)
              w == write_output_file(st.final_package, write_ok)
          IN /\ state' = st
             /\ history' = Append(history, st.current_stage)
             /\ sink' = IF w.ok THEN w.val ELSE Truncated
             /\ failed' = IF w.ok THEN failed ELSE failed \cup {"package_output"}
             /\ pc' = IF w.ok THEN edge("package_output") ELSE "raised"
             /\ returned' = IF w.ok THEN Get(st, "final_package", EmptyDict) ELSE returned
    /\ UNCHANGED gathered
    /\ UNCHANGED apiVars
    /\ UNCHANGED call

NotReturned == [returned |-> FALSE]

\* no pricing-agent function is being called on its own
NoCall == [fn |-> "none", at |-> "idle"]

\* main() gives run() no URL list
Init ==
    /\ state = initial_state(NoUrls)
    /\ pc = entry_point
    /\ history = <<"initialized">>
    /\ failed = {}
    /\ gathered = <<>>
    /\ sink = NoFile
    /\ returned = NotReturned
    /\ jobs = <<>> /\ tasks = <<>> /\ now = 0 /\ runs = <<>>
    /\ call = NoCall

Next ==
    \/ ScrapeRfps
    \/ FilterRfps
    \/ SummarizeRfps
    \/ SelectBestRfp
    \/ SpecMatch
    \/ CalculatePricing
    \/ GenerateResponse
    \/ PackageOutput

Spec == Init /\ [][Next]_vars

----------------------------------------------------------------------------
(* run() and the API server's job table *)

\* __init__: _build_graph() stores the compiled graph in self.app, and the next
\* statement of __init__ sets self.app = None
UnifiedRFPWorkflow == [workflow |-> "StateGraph", app |-> None]

\* the module-level instance of api_server.py
workflow == UnifiedRFPWorkflow

\* the order in which the compiled graph sets current_stage
StageOrder == <<"initialized", "scraping", "filtering", "summarizing", "selection",
                "spec_matching", "pricing", "response_generation", "completed">>

\* run(): builds initial_state, then self.app.invoke(initial_state, config).
\* invoked: what the compiled graph does with the state when there is one to invoke:
\* it returns a final state or passes on the exception of package_output_node
run(self, rfp_urls, invoked) ==
    LET st == initial_state(rfp_urls)
    IN IF self.app = None
       THEN [ok |-> FALSE, msg |-> <<"AttributeError", "'NoneType' object has no attribute 'invoke'">>,
             history |-> <<st.current_stage>>]
       ELSE IF invoked.ok
       THEN [ok |-> TRUE, val |-> Get(invoked.val, "final_package", EmptyDict),
             history |-> StageOrder]
       ELSE [ok |-> FALSE, msg |-> invoked.msg, history |-> StageOrder]

\* outcomes of an invocation of the compiled graph, as PackageOutput leaves them
Invocations ==
    {Ok(package_output_assemble(initial_state(NoUrls), 0)),
     Raise(<<"OSError", "rfp_final_response.json">>)}

UrlInputs == {NoUrls, <<"portal">>}

\* job_id = f"job_{datetime.now().timestamp()}"
JobId(timestamp) == timestamp

Put(d, k, v) == [x \in DOMAIN d \cup {k} |-> IF x = k THEN v ELSE d[x]]

\* POST /api/process-rfp
process_rfp ==
    /\ Len(tasks) < MaxRequests
    /\ \E rfp_urls \in UrlInputs :
          LET job_id == JobId(now)
          IN /\ jobs' = Put(jobs, job_id, [status |-> "started", started_at |-> now, progress |-> 0])
             /\ tasks' = Append(tasks, [job_id |-> job_id, rfp_urls |-> rfp_urls, at |-> "queued"])
    /\ UNCHANGED <<now, runs>>
    /\ UNCHANGED pipeVars
    /\ UNCHANGED call

\* run_workflow up to the call of workflow.run
run_workflow_start ==
    /\ \E i \in DOMAIN tasks :
          /\ tasks[i].at = "queued"
          /\ jobs' = [jobs EXCEPT ![tasks[i].job_id] = Put(@, "status", "running")]
          /\ tasks' = [tasks EXCEPT ![i].at = "run"]
    /\ UNCHANGED <<now, runs>>
    /\ UNCHANGED pipeVars
    /\ UNCHANGED call

\* workflow.run(rfp_urls) comes back to run_workflow: by return or by exception
run_workflow_finish ==
    /\ \E i \in DOMAIN tasks : \E invoked \in Invocations :
          LET job_id == tasks[i].job_id
              result == run(workflow, tasks[i].rfp_urls, invoked)
          IN /\ tasks[i].at = "run"
             /\ jobs' = [jobs EXCEPT ![job_id] =
                            IF result.ok
                            THEN Put(Put(Put(@, "status", "completed"), "completed_at", now),
                                     "result", result.val)
                            ELSE Put(Put(@, "status", "failed"), "error", result.msg)]
             /\ tasks' = [tasks EXCEPT ![i].at = "done"]
             /\ runs' = Append(runs, [job_id |-> job_id, ok |-> result.ok,
                                      history |-> result.history])
    /\ UNCHANGED now
    /\ UNCHANGED pipeVars
    /\ UNCHANGED call

\* raise HTTPException(status_code=..., detail=...)
HTTPException(status_code, detail) == Raise(<<"HTTPException", status_code, detail>>)

\* job_id = f"scrape_{datetime.now().timestamp()}": the keys of scrape jobs are the
\* negative numbers, those of process-rfp jobs the others
ScrapeJobId(timestamp) == -1 - timestamp

\* the job identifiers a request can name: issued or not
RequestIds == {JobId(t) : t \in 0..MaxClock} \cup {ScrapeJobId(t) : t \in 0..MaxClock}

\* GET /api/status/{job_id}
get_status(table, job_id) ==
    IF job_id \notin DOMAIN table THEN HTTPException(404, "Job not found")
    ELSE Ok(table[job_id])

\* GET /api/result/{job_id}
get_result(table, job_id) ==
    IF job_id \notin DOMAIN table THEN HTTPException(404, "Job not found")
    ELSE LET job == table[job_id]
         IN IF job.status # "completed"
            THEN Ok([status |-> job.status, message |-> "Workflow not completed yet"])
            ELSE Ok([status |-> "completed", result |-> Get(job, "result", EmptyDict)])

\* the body of approve_response: the job table it leaves and its answer
approve(table, request, utcnow) ==
    IF request.job_id \notin DOMAIN table
    THEN [jobs |-> table, answer |-> HTTPException(404, "Job not found")]
    ELSE [jobs |-> [table EXCEPT ![request.job_id] =
                       Put(Put(Put(@, "approved", request.approved),
                               "approval_comments", request.comments),
                           "approved_at", utcnow)],
          answer |-> IF request.approved
                     THEN Ok([status |-> "approved", job_id |-> request.job_id])
                     ELSE Ok([status |-> "rejected", comments |-> request.comments,
                              job_id |-> request.job_id])]

\* faulty variant: an approved job is answered ready whatever its status
generate_pdf_response_skips_status(table, job_id) ==
    IF job_id \notin DOMAIN table THEN HTTPException(404, "Job not found")
    ELSE LET job == table[job_id]
         IN IF ~Get(job, "approved", FALSE)
            THEN HTTPException(400, "Response not approved yet")
            ELSE Ok([status |-> "ready", job_id |-> job_id,
                     pdf_url |-> <<"/downloads/", job_id, ".pdf">>])

\* GET /api/response/generate-pdf/{job_id}; job.get("approved") is None for a job
\* no approval request has named
generate_pdf_response(table, job_id) ==
    IF job_id \notin DOMAIN table THEN HTTPException(404, "Job not found")
    ELSE LET job == table[job_id]
         IN IF Get(job, "status", None) # "completed"
            THEN HTTPException(400, "Job not completed yet")
            ELSE IF ~Get(job, "approved", FALSE)
            THEN HTTPException(400, "Response not approved yet")
            ELSE Ok([status |-> "ready", job_id |-> job_id,
                     pdf_url |-> <<"/downloads/", job_id, ".pdf">>])

\* POST /api/response/approve; an unknown job is answered 404 and nothing changes
approve_response ==
    /\ \E job_id \in RequestIds, approved \in BOOLEAN :
          jobs' = approve(jobs, [job_id |-> job_id, approved |-> approved, comments |-> ""],
                          now).jobs
    /\ UNCHANGED <<tasks, now, runs>>
    /\ UNCHANGED pipeVars
    /\ UNCHANGED call

\* POST /api/rfp/scrape, once scrape_urls is imported: the job record, and the
\* background task that will call scrape_urls(urls)
scrape_rfp_portals ==
    /\ Len(tasks) < MaxRequests
    /\ \E urls \in UrlInputs :
          LET job_id == ScrapeJobId(now)
          IN /\ jobs' = Put(jobs, job_id, [status |-> "started", type |-> "scraping"])
             /\ tasks' = Append(tasks,
                    [job_id |-> job_id,
                     rfp_urls |-> IF urls = NoUrls THEN DEFAULT_URLS ELSE urls,
                     at |-> "scrape"])
    /\ UNCHANGED <<now, runs>>
    /\ UNCHANGED pipeVars
    /\ UNCHANGED call

\* scrape_task: scrape_urls(urls) returns the leads or raises
scrape_task ==
    /\ \E i \in DOMAIN tasks : \E out \in ScrapeOutcomes :
          LET job_id == tasks[i].job_id
          IN /\ tasks[i].at = "scrape"
             /\ jobs' = [jobs EXCEPT ![job_id] =
                            IF out.ok
                            THEN Put(Put(@, "status", "completed"), "result",
                                     [rfps |-> out.val, count |-> Len(out.val)])
                            ELSE Put(Put(@, "status", "failed"), "error", out.msg)]
             /\ tasks' = [tasks EXCEPT ![i].at = "done"]
    /\ UNCHANGED <<now, runs>>
    /\ UNCHANGED pipeVars
    /\ UNCHANGED call

\* the wall clock advances
Tick ==
    /\ now < MaxClock
    /\ now' = now + 1
    /\ UNCHANGED <<jobs, tasks, runs>>
    /\ UNCHANGED pipeVars
    /\ UNCHANGED call

\* the server after import: no jobs, the module-level workflow constructed
InitRun ==
    /\ state = initial_state(NoUrls)
    /\ pc = "idle"
    /\ history = <<>>
    /\ failed = {}
    /\ gathered = <<>>
    /\ sink = NoFile
    /\ returned = NotReturned
    /\ jobs = <<>> /\ tasks = <<>> /\ now = 0 /\ runs = <<>>
    /\ call = NoCall

NextRun ==
    \/ process_rfp
    \/ run_workflow_start
    \/ run_workflow_finish
    \/ approve_response
    \/ Tick

SpecRun == InitRun /\ [][NextRun]_vars

\* the server with its scraping jobs as well, within one reading of the clock:
\* approval and PDF requests name jobs of either kind, issued or not
NextReview ==
    \/ process_rfp
    \/ run_workflow_start
    \/ run_workflow_finish
    \/ scrape_rfp_portals
    \/ scrape_task
    \/ approve_response

SpecReview == InitRun /\ [][NextReview]_vars

----------------------------------------------------------------------------
(* The pricing agent's functions, each called on its own *)

\* candidates of a line: a SKU and its spec-match score, in hundredths
CandA80 == [sku |-> "SKU-A", spec_match |-> 80]
CandB80 == [sku |-> "SKU-B", spec_match |-> 80]
CandB95 == [sku |-> "SKU-B", spec_match |-> 95]
\* a candidate at the lower end of the cosine range, -1
CandAMinus100 == [sku |-> "SKU-A", spec_match |-> -100]
Candidates == {CandA80, CandB80, CandB95, CandAMinus100}

\* a line as process_products reads it; the quantities 5, 4, 3, .. differ by line
LineItem(line_id, recommended) ==
    [line_id |-> line_id, scope_item |-> "cable", quantity |-> 6 - line_id,
     recommended |-> recommended]

\* a line without the keys process_products reads
MalformedLine(item_no) == [item_no |-> item_no, description |-> "cable", quantity |-> 1000]

MakeLine(i, shape) ==
    IF "recommended" \in DOMAIN shape THEN LineItem(i, shape.recommended)
    ELSE MalformedLine(i)

\* the technical tables of at most MaxLines lines, each line of one of the shapes
TablesOver(shapes) ==
    UNION {{[i \in 1..m |-> MakeLine(i, f[i])] : f \in [1..m -> shapes]} : m \in 0..MaxLines}

LineShapes == [recommended : SeqsUpTo(Candidates, MaxCands)] \cup {[malformed |-> TRUE]}
PassShapes == {[recommended |-> <<>>], [recommended |-> <<CandA80>>],
               [recommended |-> <<CandB95>>], [recommended |-> <<CandA80, CandB95>>],
               [malformed |-> TRUE]}

\* process_products starts every line afresh (best_match, highest_spec): the tables
\* of several lines draw their lines from PassShapes, and the one-line tables take
\* every candidate list
ProductTables == TablesOver(PassShapes) \cup {<<MakeLine(1, shape)>> : shape \in LineShapes}

\* Product_Prices sheets: SKU-A at 10 and SKU-B at 12; SKU-A alone; SKU-A with a
\* text in its price cell
ProductsAB == WorkbookA.Product_Prices
ProductsA == SubSeq(ProductsAB, 1, 1)
ProductsText == <<[ProductsAB[1] EXCEPT !.Base_Price = Text("on request")], ProductsAB[2]>>

\* Test_Prices sheets: X at 100; X at 100 and Y at 40; X with a text in its cost cell
TestsX == <<[Test_Name |-> "X", Test_Type |-> "routine", Unit_Cost |-> Num(100), Duration |-> Num(2)]>>
TestsXY == Append(TestsX, [Test_Name |-> "Y", Test_Type |-> "type", Unit_Cost |-> Num(40),
                           Duration |-> Num(7)])
TestsText == <<[TestsX[1] EXCEPT !.Unit_Cost = Text("tbd")]>>

TestLists == SeqsUpTo({"X", "Y"}, MaxTests)

WorkbookXY == Workbook(ProductsAB, TestsXY)

ProductCalls ==
    [fn : {"process_products"}, technical_table : ProductTables,
     product_df : {ProductsAB, ProductsA, ProductsText}, at : {"called"}]

TestCalls ==
    [fn : {"process_tests"}, test_list : TestLists,
     test_df : {TestsX, TestsXY, TestsText}, at : {"called"}]

PassCalls ==
    [fn : {"run_pricing_agent"},
     input_json : [rfp_id : {"RFP-1"}, technical_table : TablesOver(PassShapes),
                   rfp_summary : [tests : TestLists]],
     env : [workbook : {WorkbookMissing, WorkbookXY}, save_ok : BOOLEAN],
     at : {"called"}]

\* the call after the function came back: with its return value or its exception
Outcome(c, r) ==
    IF r.ok THEN Merge([c EXCEPT !.at = "returned"], [result |-> r.val])
    ELSE Merge([c EXCEPT !.at = "raised"], [msg |-> r.msg])

CallProcessProducts ==
    /\ call.fn = "process_products" /\ call.at = "called"
    /\ call' = Outcome(call, process_products(call.technical_table, call.product_df))
    /\ UNCHANGED <<pipeVars, apiVars>>

CallProcessTests ==
    /\ call.fn = "process_tests" /\ call.at = "called"
    /\ call' = Outcome(call, process_tests(call.test_list, call.test_df))
    /\ UNCHANGED <<pipeVars, apiVars>>

CallRunPricingAgent ==
    /\ call.fn = "run_pricing_agent" /\ call.at = "called"
    /\ call' = Outcome(call, run_pricing_agent(call.input_json, call.env))
    /\ UNCHANGED <<pipeVars, apiVars>>

\* a caller is about to call one of the three functions
InitPricing ==
    /\ state = initial_state(NoUrls)
    /\ pc = "idle"
    /\ history = <<>>
    /\ failed = {}
    /\ gathered = <<>>
    /\ sink = NoFile
    /\ returned = NotReturned
    /\ jobs = <<>> /\ tasks = <<>> /\ now = 0 /\ runs = <<>>
    /\ call \in ProductCalls \cup TestCalls \cup PassCalls

NextPricing ==
    \/ CallProcessProducts
    \/ CallProcessTests
    \/ CallRunPricingAgent

SpecPricing == InitPricing /\ [][NextPricing]_vars

----------------------------------------------------------------------------
(* search_cables called on its own *)

IndexRecords == {Rec1, Rec2, Rec3, Rec4}

\* the "records" lists of at most MaxRecords catalogue records, in every storage order
RecordLists ==
    {recs \in SeqsUpTo(IndexRecords, MaxRecords) :
        \A i, j \in DOMAIN recs : recs[i] = recs[j] => i = j}

SearchFiles == {FileMissing, FileCorrupt} \cup {File(recs) : recs \in RecordLists}

SearchCalls ==
    [fn : {"search_cables"}, query : Queries, top_k : 0..MaxK, available : BOOLEAN,
     env : [file : SearchFiles, encode_ok : BOOLEAN], at : {"called"}]

CallSearchCables ==
    /\ call.fn = "search_cables" /\ call.at = "called"
    /\ call' = Outcome(call, search_cables(call.query, call.top_k, call.available, call.env))
    /\ UNCHANGED <<pipeVars, apiVars>>

\* a caller is about to search the catalogue
InitSearch ==
    /\ state = initial_state(NoUrls)
    /\ pc = "idle"
    /\ history = <<>>
    /\ failed = {}
    /\ gathered = <<>>
    /\ sink = NoFile
    /\ returned = NotReturned
    /\ jobs = <<>> /\ tasks = <<>> /\ now = 0 /\ runs = <<>>
    /\ call \in SearchCalls

NextSearch == CallSearchCables

SpecSearch == InitSearch /\ [][NextSearch]_vars

----------------------------------------------------------------------------
(* Several runs of the one workflow instance inside package_output_node *)

\* states in which a run enters package_output_node
PackageStates ==
    {[initial_state(NoUrls) EXCEPT !.current_stage = "response_generation",
                                 !.selected_rfp = rfp, !.draft_response = draft] :
        rfp \in {EmptyDict, Lead1, Lead2}, draft \in {DraftText, FailureMarker}}

\* run_workflow tasks whose workflow.run is about to package: st is the run's own state
PackagingTasks ==
    [1..MaxRequests -> [job_id : {0}, rfp_urls : {NoUrls}, at : {"package"}, st : PackageStates]]

\* rfp_final_response.json after two writers wrote through handles open at the same time
Interleaved == [interleaved |-> TRUE]

\* package_output_node up to open(output_file, 'w'), which truncates the file
OpenOutput ==
    /\ \E i \in DOMAIN tasks :
          /\ tasks[i].at = "package"
          /\ tasks' = [tasks EXCEPT ![i].at = "opened",
                                    ![i].st = package_output_assemble(@, now)]
          /\ sink' = Truncated
    /\ UNCHANGED <<state, pc, history, failed, gathered, returned>>
    /\ UNCHANGED <<jobs, now, runs>>
    /\ UNCHANGED call

\* json.dump through the run's handle, from offset 0; a file another run has written
\* since this run opened it ends as this run's text or as a mix of the two
DumpOutput ==
    /\ \E i \in DOMAIN tasks :
          /\ tasks[i].at = "opened"
          /\ tasks' = [tasks EXCEPT ![i].at = "done"]
          /\ \E content \in {tasks[i].st.final_package} \cup
                            (IF sink = Truncated THEN {} ELSE {Interleaved}) :
                sink' = content
    /\ UNCHANGED <<state, pc, history, failed, gathered, returned>>
    /\ UNCHANGED <<jobs, now, runs>>
    /\ UNCHANGED call

InitConcurrent ==
    /\ state = initial_state(NoUrls)
    /\ pc = "idle"
    /\ history = <<>>
    /\ failed = {}
    /\ gathered = <<>>
    /\ sink = NoFile
    /\ returned = NotReturned
    /\ jobs = <<>> /\ now = 0 /\ runs = <<>>
    /\ tasks \in PackagingTasks
    /\ call = NoCall

NextConcurrent ==
    \/ OpenOutput
    \/ DumpOutput

SpecConcurrent == InitConcurrent /\ [][NextConcurrent]_vars

----------------------------------------------------------------------------
(* Properties *)

Range(s) == {s[i] : i \in DOMAIN s}

IsPrefix(a, b) == Len(a) <= Len(b) /\ SubSeq(b, 1, Len(a)) = a

Ended == pc \in {"END", "raised"}

\* the seven nodes that wrap their logic in try/except, in graph order, and the
\* prefix each gives its errors entry
GuardedNodes == SubSeq(Nodes, 1, 7)

ErrorPrefix(node) ==
    CASE node = "scrape_rfps" -> "Scraping error"
      [] node = "filter_rfps" -> "Filtering error"
      [] node = "summarize_rfps" -> "Summarization error"
      [] node = "select_best_rfp" -> "Selection error"
      [] node = "spec_match" -> "Spec matching error"
      [] node = "calculate_pricing" -> "Pricing error"
      [] node = "generate_response" -> "Response generation error"

FailedInOrder == Keep(GuardedNodes, [i \in 1..7 |-> GuardedNodes[i] \in failed], 1)

\* C1: every run of the workflow takes current_stage through initialized, scraping,
\* filtering, summarizing, selection, spec_matching, pricing, response_generation,
\* completed, in that order, each once.
C1_EveryRunWalksTheStages ==
    \A i \in DOMAIN runs : runs[i].history = StageOrder

\* C2: whichever stages raise, run() hands the final package back to its caller and
\* no exception reaches the caller.
C2_RunReturnsThePackage ==
    \A i \in DOMAIN runs :
        /\ runs[i].ok
        /\ runs[i].history[Len(runs[i].history)] = "completed"

\* C3: the errors log holds exactly one entry per guarded stage whose logic raised,
\* prefixed with that stage's name, in stage order; so at most seven entries.
C3_OneEntryPerFailedStage ==
    /\ Len(state.errors) = Len(FailedInOrder)
    /\ \A i \in DOMAIN state.errors : state.errors[i][1] = ErrorPrefix(FailedInOrder[i])
    /\ Len(state.errors) <= 7

C3_Witness == pc = "END" /\ Len(state.errors) = 7

\* C4: the errors log is append-only: in every step the log before the step is a
\* prefix of the log after it.
C4_ErrorsAppendOnly == [][IsPrefix(state.errors, state'.errors)]_vars

C4_Witness == pc = "END" /\ Len(state.errors) >= 3

\* C5: the Package stage always succeeds: once it has run, final_package is set,
\* current_stage is completed and nothing was raised to the caller.
C5_PackageAlwaysSucceeds ==
    state.current_stage = "completed" =>
        /\ state.final_package # EmptyDict
        /\ pc = "END"
        /\ returned = state.final_package

\* C6: if the discovery function raised, all_rfps is the empty lead list and the
\* run goes on to the Filter stage.
C6_DiscoveryFallback ==
    "scrape_rfps" \in failed =>
        /\ state.all_rfps = <<>>
        /\ state.current_stage = "scraping" => pc = "filter_rfps" /\ ENABLED FilterRfps

C6_Witness == "scrape_rfps" \in failed /\ state.current_stage = "filtering"

\* C7: if the filter function raised, filtered_rfps is all_rfps unchanged; if the
\* summarizer raised, summarized_rfps is filtered_rfps unchanged.
C7_PassThroughFallbacks ==
    /\ "filter_rfps" \in failed => state.filtered_rfps = state.all_rfps
    /\ "summarize_rfps" \in failed => state.summarized_rfps = state.filtered_rfps

C7_Witness ==
    /\ {"filter_rfps", "summarize_rfps"} \subseteq failed
    /\ Len(state.summarized_rfps) = 2
    /\ state.summarized_rfps[1] # state.summarized_rfps[2]

\* C8: if the Select stage's logic raised, selected_rfp is the first summarized lead
\* when there is one, and otherwise the empty record with a Selection entry in
\* errors; the run then goes on through SpecMatch, Pricing, Draft and Package up to
\* current_stage = completed.
C8_SelectFallback ==
    "select_best_rfp" \in failed =>
        /\ state.summarized_rfps # <<>> => state.selected_rfp = state.summarized_rfps[1]
        /\ state.summarized_rfps = <<>> =>
              /\ state.selected_rfp = EmptyDict
              /\ \E i \in DOMAIN state.errors : state.errors[i][1] = "Selection error"
        /\ ~Ended => ENABLED Next
        /\ IsPrefix(history, StageOrder)
        /\ Ended => state.current_stage = "completed" /\ history = StageOrder

C8_Witness ==
    /\ "select_best_rfp" \in failed
    /\ Len(state.summarized_rfps) = 2
    /\ state.summarized_rfps[1] # state.summarized_rfps[2]
    /\ state.current_stage = "completed"

\* C9: if the SpecMatch stage's logic raised, at query derivation or at the search
\* for any query, spec_matches is empty after the stage, whatever had been gathered.
C9_SpecMatchFallback ==
    "spec_match" \in failed => state.spec_matches = <<>>

C9_Witness == "spec_match" \in failed /\ gathered # <<>> /\ state.current_stage = "spec_matching"

\* C10: if the Pricing stage's logic raised, pricing_result is the fixed estimate
\* (50000 material, 5000 tests, note "Estimated pricing") whose grand_total is the
\* sum of its two subtotals.
C10_PricingFallback ==
    "calculate_pricing" \in failed =>
        /\ state.pricing_result = [total_material_cost |-> 50000, total_test_cost |-> 5000,
                                   grand_total |-> 55000, note |-> "Estimated pricing"]
        /\ state.pricing_result.grand_total =
              state.pricing_result.total_material_cost + state.pricing_result.total_test_cost

C10_Witness ==
    /\ "calculate_pricing" \in failed
    /\ state.spec_matches # <<>>
    /\ state.current_stage = "pricing"

\* C11: once the Draft stage has run, draft_response is the text the drafting
\* function returned, or the marker "Response generation failed"; it is the marker
\* exactly when the drafting call raised (a fault of the drafting function's own
\* fallback path included), and the run goes on to Package.
C11_DraftFallback ==
    state.current_stage \in {"response_generation", "completed"} =>
        /\ state.draft_response = FailureMarker <=> "generate_response" \in failed
        /\ \E gemini_ok \in BOOLEAN :
              LET t == response_try(state, gemini_ok)
              IN IF "generate_response" \in failed
                 THEN t.raised /\ state.draft_response = FailureMarker
                 ELSE ~t.raised /\ state.draft_response = t.st.draft_response
        /\ state.current_stage = "response_generation" =>
              pc = "package_output" /\ ENABLED PackageOutput

\* the model call failed and the selected lead has no summary for the fallback text
C11_Witness ==
    /\ "generate_response" \in failed
    /\ state.selected_rfp # EmptyDict
    /\ "summary" \notin DOMAIN state.selected_rfp
    /\ state.current_stage = "response_generation"

\* C12: the final package has the sections rfp_details, spec_matches, pricing,
\* draft_response and processing_summary and mirrors the state at Package: the two
\* match counts are the number of spec matches, total_rfps_scraped and
\* candidates_found are the lengths of all_rfps and filtered_rfps, pricing is
\* pricing_result, processing_summary.errors is the whole errors log (non-empty
\* when a stage failed), and a run that ends returns this package.
C12_PackageMirrorsState ==
    state.current_stage = "completed" =>
        LET final_package == state.final_package IN
        /\ DOMAIN final_package = {"rfp_details", "spec_matches", "pricing",
                                   "draft_response", "processing_summary"}
        /\ final_package.spec_matches.count = Len(state.spec_matches)
        /\ final_package.processing_summary.products_matched = Len(state.spec_matches)
        /\ final_package.spec_matches.products = state.spec_matches
        /\ final_package.processing_summary.total_rfps_scraped = Len(state.all_rfps)
        /\ final_package.processing_summary.candidates_found = Len(state.filtered_rfps)
        /\ final_package.pricing = state.pricing_result
        /\ final_package.draft_response = state.draft_response
        /\ final_package.processing_summary.errors = state.errors
        /\ failed \cap Range(GuardedNodes) # {} => final_package.processing_summary.errors # <<>>
        /\ pc = "END" => returned = final_package

\* a returned package with a failed stage, matches, and fewer candidates than leads
C12_Witness ==
    /\ pc = "END"
    /\ returned = state.final_package
    /\ Len(state.all_rfps) = 2
    /\ Len(state.filtered_rfps) = 1
    /\ state.spec_matches # <<>>
    /\ state.errors # <<>>

----------------------------------------------------------------------------
(* Properties of the pricing agent's functions *)

Returned(fn) == call.fn = fn /\ call.at = "returned"

RECURSIVE SumSeq(_)
SumSeq(s) == IF s = <<>> THEN 0 ELSE s[1] + SumSeq(Tail(s))

IncludedTotals(pricing_table) ==
    [i \in DOMAIN pricing_table |-> Get(pricing_table[i], "included_total_price", 0)]

UnitCosts(matched_tests) == [i \in DOMAIN matched_tests |-> matched_tests[i].unit_cost]

Resolves(sku, product_df) == \E r \in DOMAIN product_df : product_df[r].SKU_ID = sku

UnitPrice(sku, product_df) ==
    product_df[CHOOSE r \in DOMAIN product_df :
                  /\ product_df[r].SKU_ID = sku
                  /\ \A q \in 1..(r - 1) : product_df[q].SKU_ID # sku].Base_Price.num

\* positions of the candidates that resolve in the price catalog
Resolving(recommended, product_df) ==
    {j \in DOMAIN recommended : Resolves(recommended[j].sku, product_df)}

\* the first position, in input order, of a resolving candidate of maximal score
FirstBest(recommended, product_df) ==
    LET R == Resolving(recommended, product_df)
    IN CHOOSE j \in R :
          \A k \in R : \/ recommended[j].spec_match > recommended[k].spec_match
                       \/ recommended[j].spec_match = recommended[k].spec_match /\ j <= k

\* C13: in every result of the pricing pass, for any number of lines and tests
\* (none included), the overall project cost is total_material_cost +
\* total_test_cost, and the summary holds these three amounts only.
C13_GrandTotalIsSumOfSubtotals ==
    Returned("run_pricing_agent") =>
        LET summary == call.result.summary
        IN /\ DOMAIN summary = {"total_material_cost", "total_test_cost", "overall_project_cost"}
           /\ summary.overall_project_cost =
                 summary.total_material_cost + summary.total_test_cost

\* a pass that priced a line and matched a test
C13_Witness ==
    /\ Returned("run_pricing_agent")
    /\ call.result.summary.total_material_cost > 0
    /\ call.result.summary.total_test_cost > 0
    /\ Len(call.input_json.technical_table) = 2

\* C14: in every line, the included SKU is the SKU of the candidate, among those
\* that resolve in the price catalog, with the highest spec-match score, and of
\* several with that score the first in input order; the candidate lists range
\* over every ordering.
C14_IncludedIsFirstBest ==
    Returned("process_products") =>
        \A i \in DOMAIN call.result.pricing_table \cap DOMAIN call.technical_table :
            LET entry == call.result.pricing_table[i]
                recommended == call.technical_table[i].recommended
            IN "included_sku" \in DOMAIN entry =>
                  /\ Resolving(recommended, call.product_df) # {}
                  /\ entry.included_sku =
                        recommended[FirstBest(recommended, call.product_df)].sku

\* two resolving candidates of equal score, SKU-B before SKU-A: SKU-B is included
C14_Witness ==
    /\ Returned("process_products")
    /\ call.product_df = ProductsAB
    /\ call.technical_table = <<LineItem(1, <<CandB80, CandA80>>)>>
    /\ call.result.pricing_table[1].included_sku = "SKU-B"

\* the process_products call has no malformed line and no text in a price cell
WellFormedProducts ==
    /\ \A i \in DOMAIN call.technical_table :
          {"line_id", "scope_item", "quantity", "recommended"} \subseteq
              DOMAIN call.technical_table[i]
    /\ \A r \in DOMAIN call.product_df : IsNumber(call.product_df[r].Base_Price)

\* C15: a line whose candidate list is empty, or has no candidate in the price
\* catalog, gets no included SKU and adds nothing to total_material_cost; the
\* lines after it are processed, and the pricing table has one entry per input
\* line, in input order.
C15_UnpricedLineIsKept ==
    call.fn = "process_products" /\ call.at # "called" =>
        /\ WellFormedProducts => call.at = "returned"
        /\ call.at = "returned" =>
              LET pricing_table == call.result.pricing_table
                  technical_table == call.technical_table
              IN /\ Len(pricing_table) = Len(technical_table)
                 /\ \A i \in DOMAIN pricing_table :
                       /\ pricing_table[i].line_id = technical_table[i].line_id
                       /\ Resolving(technical_table[i].recommended, call.product_df) = {} =>
                             /\ "included_sku" \notin DOMAIN pricing_table[i]
                             /\ "included_total_price" \notin DOMAIN pricing_table[i]
                 /\ call.result.total_material_cost =
                       SumSeq([i \in DOMAIN pricing_table |->
                                  IF Resolving(technical_table[i].recommended,
                                               call.product_df) = {}
                                  THEN 0 ELSE Get(pricing_table[i], "included_total_price", 0)])

\* a line whose only candidate is not in the catalog, followed by a priced line
C15_Witness ==
    /\ Returned("process_products")
    /\ call.product_df = ProductsA
    /\ call.technical_table = <<LineItem(1, <<CandB95>>), LineItem(2, <<CandA80>>)>>
    /\ Len(call.result.pricing_table) = 2
    /\ "included_sku" \notin DOMAIN call.result.pricing_table[1]
    /\ call.result.pricing_table[2].included_sku = "SKU-A"

\* C16: in every line with an included SKU, the included line total is that SKU's
\* catalog unit price times the line's quantity, and total_material_cost is the
\* sum of the included line totals over all lines.
C16_LineTotalsAndMaterialCost ==
    Returned("process_products") =>
        LET pricing_table == call.result.pricing_table
        IN /\ \A i \in DOMAIN pricing_table \cap DOMAIN call.technical_table :
                 "included_sku" \in DOMAIN pricing_table[i] =>
                     pricing_table[i].included_total_price =
                         UnitPrice(pricing_table[i].included_sku, call.product_df)
                             * call.technical_table[i].quantity
           /\ call.result.total_material_cost = SumSeq(IncludedTotals(pricing_table))

\* candidates (SKU-A, 0.80, 10) and (SKU-B, 0.95, 12) with quantity 5: SKU-B, 60
C16_Witness ==
    /\ Returned("process_products")
    /\ call.product_df = ProductsAB
    /\ call.technical_table = <<LineItem(1, <<CandA80, CandB95>>)>>
    /\ call.technical_table[1].quantity = 5
    /\ call.result.pricing_table[1].included_sku = "SKU-B"
    /\ call.result.pricing_table[1].included_total_price = 60
    /\ call.result.total_material_cost = 60

\* C17: in every line, recommended_pricing holds the candidates that resolve in
\* the price catalog, and no others, in input order, each with its own total
\* price, included or not.
C17_BreakdownListsResolving ==
    Returned("process_products") =>
        \A i \in DOMAIN call.result.pricing_table \cap DOMAIN call.technical_table :
            LET line == call.technical_table[i]
                resolving == SelectSeq(line.recommended,
                                       LAMBDA c : Resolves(c.sku, call.product_df))
                recommended_pricing == call.result.pricing_table[i].recommended_pricing
            IN /\ Len(recommended_pricing) = Len(resolving)
               /\ \A j \in DOMAIN recommended_pricing :
                     /\ recommended_pricing[j].sku = resolving[j].sku
                     /\ recommended_pricing[j].spec_match = resolving[j].spec_match
                     /\ recommended_pricing[j].total_price =
                           UnitPrice(resolving[j].sku, call.product_df) * line.quantity

\* SKU-B is included and SKU-A, not included, is listed after it with its own total
C17_Witness ==
    /\ Returned("process_products")
    /\ call.product_df = ProductsAB
    /\ call.technical_table = <<LineItem(1, <<CandB95, CandA80>>)>>
    /\ call.result.pricing_table[1].included_sku = "SKU-B"
    /\ Len(call.result.pricing_table[1].recommended_pricing) = 2
    /\ call.result.pricing_table[1].recommended_pricing[2].sku = "SKU-A"
    /\ call.result.pricing_table[1].recommended_pricing[2].total_price = 50

\* the test catalog of the process_tests call has numbers in its cost and duration cells
WellFormedTests ==
    \A r \in DOMAIN call.test_df :
        IsNumber(call.test_df[r].Unit_Cost) /\ IsNumber(call.test_df[r].Duration)

TestPresent(test_name, test_df) == \E r \in DOMAIN test_df : test_df[r].Test_Name = test_name

TestCost(test_name, test_df) ==
    test_df[CHOOSE r \in DOMAIN test_df :
               /\ test_df[r].Test_Name = test_name
               /\ \A q \in 1..(r - 1) : test_df[q].Test_Name # test_name].Unit_Cost.num

\* C18: matched_tests has one entry per required name that is in the test catalog,
\* in request order; a name that is not in the catalog is skipped without error;
\* total_test_cost is the sum of the matched entries' unit costs.
C18_MatchedTests ==
    call.fn = "process_tests" /\ call.at # "called" =>
        /\ WellFormedTests => call.at = "returned"
        /\ call.at = "returned" =>
              LET present == SelectSeq(call.test_list,
                                       LAMBDA n : TestPresent(n, call.test_df))
                  matched_tests == call.result.matched_tests
              IN /\ Len(matched_tests) = Len(present)
                 /\ \A i \in DOMAIN matched_tests :
                       /\ matched_tests[i].test_name = present[i]
                       /\ matched_tests[i].unit_cost = TestCost(present[i], call.test_df)
                 /\ call.result.total_test_cost = SumSeq(UnitCosts(matched_tests))

\* required [X, Y] with only X, at 100, in the catalog: one entry, total 100
C18_Witness ==
    /\ Returned("process_tests")
    /\ call.test_list = <<"X", "Y">>
    /\ call.test_df = TestsX
    /\ Len(call.result.matched_tests) = 1
    /\ call.result.matched_tests[1].test_name = "X"
    /\ call.result.total_test_cost = 100

\* C19: a fault while one line or one test is processed never aborts the pricing
\* pass: with the workbook loaded and the summary file writable, the pass returns
\* a pricing result, with an entry for every line that has the expected keys.
C19_FaultsIsolatedPerItem ==
    /\ call.fn = "run_pricing_agent"
    /\ call.at # "called"
    /\ call.env.workbook.exists
    /\ call.env.save_ok
    => /\ call.at = "returned"
       /\ Len(call.result.pricing_table) =
             Cardinality({i \in DOMAIN call.input_json.technical_table :
                             "line_id" \in DOMAIN call.input_json.technical_table[i]})

\* the Pricing entries of the errors log
PricingErrors == SelectSeq(state.errors, LAMBDA e : e[1] = "Pricing error")

\* C20: when SpecMatch left at least one match and the price workbook loads, the
\* Pricing stage leaves the result of the pricing pass in pricing_result, not the
\* estimate, and appends no Pricing entry to errors.
C20_PricingUsesThePass ==
    /\ state.current_stage \in {"pricing", "response_generation", "completed"}
    /\ Len(state.spec_matches) >= 1
    /\ \A i \in DOMAIN PricingErrors : PricingErrors[i][2][1] # "FileNotFoundError"
    => /\ PricingErrors = <<>>
       /\ state.pricing_result # FallbackPricing
       /\ "summary" \in DOMAIN state.pricing_result

----------------------------------------------------------------------------
(* Properties of the similarity index *)

\* the records of the embeddings file that carry an embedding
Indexed(file) == SelectSeq(load_embeddings(file).records, LAMBDA r : "embedding" \in DOMAIN r)

\* C21: search returns at most k results, and fewer than k only when the index
\* holds fewer than k records.
C21_TopKBound ==
    Returned("search_cables") =>
        /\ Len(call.result) <= call.top_k
        /\ Len(call.result) < call.top_k => Len(Indexed(call.env.file)) < call.top_k

\* C22: search returns the k highest-scoring records, by score descending, and
\* records of equal score by record identifier ascending, whatever the order in
\* which the file stores them.
C22_OrderedByScoreThenId ==
    Returned("search_cables") /\ call.available =>
        /\ \A i, j \in DOMAIN call.result :
              i < j => \/ call.result[i][1] > call.result[j][1]
                       \/ /\ call.result[i][1] = call.result[j][1]
                          /\ call.result[i][2].id < call.result[j][2].id
        /\ \A n \in DOMAIN Indexed(call.env.file) :
              LET record == Indexed(call.env.file)[n]
                  score == cosine_similarity(call.query, record.embedding)
              IN \/ \E i \in DOMAIN call.result : call.result[i][2] = record
                 \/ \A i \in DOMAIN call.result : call.result[i][1] >= score

\* the embeddings file is missing, unreadable, or holds no records
EmptyIndex(file) == load_embeddings(file).records = <<>>

\* C23: if the index is empty (no records, or the embeddings file is missing or
\* unreadable), search returns the empty sequence for every query and every k,
\* and does not raise.
C23_EmptyIndexReturnsEmpty ==
    call.fn = "search_cables" /\ call.at # "called" /\ EmptyIndex(call.env.file) =>
        call.at = "returned" /\ call.result = <<>>

\* an unreadable file, searched with a model whose encode would have raised
C23_Witness ==
    /\ Returned("search_cables")
    /\ call.env.file = FileCorrupt
    /\ call.available /\ ~call.env.encode_ok
    /\ call.top_k = 3
    /\ call.result = <<>>

\* every lookup finds the embeddings file missing
MissingIndex == [i \in 1..3 |-> [file |-> FileMissing, encode_ok |-> TRUE]]

\* C24: if the embedding model or the index is unavailable, the SpecMatch stage
\* ends with an empty spec_matches list and a new SpecMatch entry in the errors
\* log, and the run goes on to Pricing.
C24_UnavailabilityIsRecorded ==
    [][pc = "spec_match" =>
          \A EMBEDDINGS_AVAILABLE \in BOOLEAN :
              state' = spec_match_node(state, EMBEDDINGS_AVAILABLE, MissingIndex) =>
                  /\ state'.spec_matches = <<>>
                  /\ Len(state'.errors) = Len(state.errors) + 1
                  /\ state'.errors[Len(state'.errors)][1] = "Spec matching error"
                  /\ pc' = "calculate_pricing"]_vars

\* C25: for every selected lead (the empty record and a lead whose description is
\* absent or null included) the SpecMatch stage derives at least one and at most
\* five queries, exactly one when the description has none of the keywords, and
\* looks each of them up with top_k = 3.
C25_AtLeastOneQuery ==
    state.current_stage = "spec_matching" =>
        /\ Len(state.product_requirements) \in 1..5
        /\ Get(state.selected_rfp, "description", None) = None =>
              state.product_requirements = <<QueryGeneric>>

\* C26: when the SpecMatch stage succeeds, spec_matches holds, query after query
\* in query order, the search results of each query, each tagged with its query
\* and, within a query, in descending similarity: at most 3 per query and 15 in all.
C26_MatchesInQueryOrder ==
    /\ state.current_stage \in {"spec_matching", "pricing", "response_generation", "completed"}
    /\ "spec_match" \notin failed
    => LET queries == Take(state.product_requirements, 5)
           spec_matches == state.spec_matches
           QueryIndex(q) == CHOOSE i \in DOMAIN queries : queries[i] = q
       IN /\ \A n \in DOMAIN spec_matches :
                /\ spec_matches[n].query \in Range(queries)
                /\ \E record \in IndexRecords :
                      /\ "embedding" \in DOMAIN record
                      /\ spec_matches[n] =
                            MatchEntry(spec_matches[n].query,
                                       cosine_similarity(spec_matches[n].query, record.embedding),
                                       record)
          /\ \A m, n \in DOMAIN spec_matches :
                m < n => \/ QueryIndex(spec_matches[m].query) < QueryIndex(spec_matches[n].query)
                         \/ /\ spec_matches[m].query = spec_matches[n].query
                            /\ spec_matches[m].match_score >= spec_matches[n].match_score
          /\ \A q \in Range(queries) :
                Cardinality({n \in DOMAIN spec_matches : spec_matches[n].query = q}) <= 3
          /\ Len(spec_matches) <= 15

\* three queries, each with three matches
C26_Witness ==
    /\ state.current_stage = "spec_matching"
    /\ "spec_match" \notin failed
    /\ Len(state.product_requirements) = 3
    /\ Len(state.spec_matches) = 9

\* the storage orders of the records of a list
StorageOrders(recs) == {p \in [DOMAIN recs -> Range(recs)] : Range(p) = Range(recs)}

\* every lookup of a run reads the same embeddings file
SameIndex(recs) == [i \in 1..3 |-> [file |-> File(recs), encode_ok |-> TRUE]]

\* C27: two runs with the same leads, the same index records in any storage
\* order, the same catalog and the same collaborator outcomes end with the same
\* spec_matches sequence and the same pricing result.
C27_Determinism ==
    pc = "spec_match" =>
        \A recs \in StorageOrders(<<Rec1, Rec2, Rec3, Rec4>>) :
            LET one == spec_match_node(state, TRUE, SameIndex(<<Rec1, Rec2, Rec3, Rec4>>))
                other == spec_match_node(state, TRUE, SameIndex(recs))
            IN /\ one.spec_matches = other.spec_matches
               /\ \A env \in PricingEnvs :
                     pricing_node(one, env).pricing_result =
                         pricing_node(other, env).pricing_result

----------------------------------------------------------------------------
(* Properties of concurrent runs and of the job table *)

\* C28: concurrent runs are independent: under every interleaving, the final
\* package of a run that has ended and the artifact it persisted are the ones it
\* produces when it runs alone; no run overwrites the output of another.
C28_RunsAreIndependent ==
    \A i \in DOMAIN tasks :
        tasks[i].at = "done" =>
            /\ tasks[i].st.final_package =
                  build_final_package([tasks[i].st EXCEPT !.final_package = EmptyDict], now)
            /\ sink = tasks[i].st.final_package

\* C29: every accepted process-rfp request gets a job record of its own: the job
\* identifiers of any two requests differ, however close in time, and there are as
\* many job records as accepted requests.
C29_JobIdsDiffer ==
    /\ \A i, j \in DOMAIN tasks : i # j => tasks[i].job_id # tasks[j].job_id
    /\ Cardinality(DOMAIN jobs) = Len(tasks)

\* the grand total of a pricing result: of the pricing pass, or of the estimate
GrandTotal(pricing_result) ==
    IF "summary" \in DOMAIN pricing_result THEN pricing_result.summary.overall_project_cost
    ELSE pricing_result.grand_total

\* C30: the enriched lead handed to the drafting function has spec_match_count =
\* the number of spec matches in state and total_cost = the grand total of the
\* pricing result of the Pricing stage, computed or estimated; the Draft stage
\* leaves selected_rfp unchanged.
C30_EnrichedLead ==
    pc = "generate_response" =>
        /\ enhanced_rfp(state).spec_match_count = Len(state.spec_matches)
        /\ enhanced_rfp(state).total_cost = GrandTotal(state.pricing_result)
        /\ \A gemini_ok \in BOOLEAN :
              response_node(state, gemini_ok).selected_rfp = state.selected_rfp

----------------------------------------------------------------------------
(* Frame of the stages *)

\* the fields a node assigns besides current_stage and errors
OutputFields(node) ==
    CASE node = "scrape_rfps" -> {"all_rfps"}
      [] node = "filter_rfps" -> {"filtered_rfps"}
      [] node = "summarize_rfps" -> {"summarized_rfps"}
      [] node = "select_best_rfp" -> {"selected_rfp"}
      [] node = "spec_match" -> {"product_requirements", "spec_matches"}
      [] node = "calculate_pricing" -> {"pricing_input", "pricing_result"}
      [] node = "generate_response" -> {"draft_response"}
      [] node = "package_output" -> {"final_package"}

\* a run of node left every field but its own, current_stage and errors as it was
Framed(node, before, after) ==
    /\ DOMAIN after = DOMAIN before
    /\ \A f \in DOMAIN before :
          f \notin OutputFields(node) \cup {"current_stage", "errors"} => after[f] = before[f]

\* C31: each stage writes only its own output fields plus current_stage and
\* errors: every other field of the state, the fields produced by the stages
\* that ended before it among them, has the same value after the stage as
\* before it, whether the stage succeeds or falls back.
C31_StagesWriteOwnFields == [][(pc \in Range(Nodes)) => Framed(pc, state, state')]_vars

\* the run ended after Select, Pricing and Draft fell back, with leads scraped
\* and matches found by the stages before them
C31_Witness ==
    /\ pc = "END"
    /\ {"select_best_rfp", "calculate_pricing", "generate_response"} \subseteq failed
    /\ Len(state.all_rfps) = MaxLeads
    /\ state.spec_matches # <<>>

----------------------------------------------------------------------------
(* The index within a run *)

\* the lookups of a run when the index is loaded once: every lookup works on the
\* file as the first lookup read it
LoadedOnce(envs) == [i \in DOMAIN envs |-> [envs[i] EXCEPT !.file = envs[1].file]]

\* C32: within one run, every search of the SpecMatch stage sees the same index
\* contents: whatever a writer does to the embeddings file between the queries
\* of a run, the stage ends as it does when every query works on the records the
\* first query read.
C32_IndexLoadedOnce ==
    pc = "spec_match" =>
        \A envs \in [1..3 -> SearchEnvs] :
            spec_match_node(state, TRUE, envs) = spec_match_node(state, TRUE, LoadedOnce(envs))

----------------------------------------------------------------------------
(* Presence of the included SKU *)

\* C33: for every line item, an included SKU is present if and only if at least
\* one of the line's candidates resolves in the price catalog, for every
\* candidate score from -1 to 1; and when present the included SKU is the SKU of
\* one of the entries of that line's recommended_pricing.
C33_IncludedIffSomeResolves ==
    Returned("process_products") =>
        \A i \in DOMAIN call.result.pricing_table \cap DOMAIN call.technical_table :
            LET entry == call.result.pricing_table[i]
                recommended == call.technical_table[i].recommended
            IN /\ "included_sku" \in DOMAIN entry <=>
                     Resolving(recommended, call.product_df) # {}
               /\ "included_sku" \in DOMAIN entry =>
                     \E j \in DOMAIN entry.recommended_pricing :
                         entry.recommended_pricing[j].sku = entry.included_sku

----------------------------------------------------------------------------
(* The job table over time *)

\* the status changes run_workflow makes to a job record
LegalStatusStep(before, after) ==
    \/ after = before
    \/ before = "started" /\ after = "running"
    \/ before = "running" /\ after \in {"completed", "failed"}

\* the background tasks are scheduled, and workflow.run comes back
SpecRunFair == SpecRun /\ WF_vars(run_workflow_start) /\ WF_vars(run_workflow_finish)

\* under SpecRunFair: a job on the table gets to completed or failed
EveryJobEnds ==
    \A job_id \in 0..MaxClock :
        (job_id \in DOMAIN jobs) ~>
            (job_id \in DOMAIN jobs /\ jobs[job_id].status \in {"completed", "failed"})

\* C34: the status of a process-rfp job only moves started -> running ->
\* completed or failed, and once completed or failed it never changes again; the
\* record holds a result exactly when its status is completed.
C34_StatusLifecycle ==
    [][\A job_id \in DOMAIN jobs :
          /\ job_id \in DOMAIN jobs'
          /\ LegalStatusStep(jobs[job_id].status, jobs'[job_id].status)
          /\ "result" \in DOMAIN jobs'[job_id] <=> jobs'[job_id].status = "completed"]_vars

----------------------------------------------------------------------------
(* Approval and PDF generation *)

NotFound(answer) == ~answer.ok /\ answer.msg = <<"HTTPException", 404, "Job not found">>

ApprovalRequests(job_id) == [job_id : {job_id}, approved : BOOLEAN, comments : {""}]

\* C35: on every job table that approvals and the background tasks' status
\* updates lead to, in whatever order, generate-pdf answers ready for a job only
\* if the job's status is completed and the approval decision its record holds,
\* the latest one, is approved; and for a job that is not on the table, approve,
\* status, result and generate-pdf all answer 404 and approve leaves the table
\* as it was.
C35_PdfOnlyWhenApproved ==
    \A job_id \in RequestIds :
        /\ generate_pdf_response(jobs, job_id).ok =>
              /\ generate_pdf_response(jobs, job_id).val.status = "ready"
              /\ job_id \in DOMAIN jobs
              /\ jobs[job_id].status = "completed"
              /\ "approved" \in DOMAIN jobs[job_id]
              /\ jobs[job_id].approved
        /\ job_id \notin DOMAIN jobs =>
              /\ NotFound(get_status(jobs, job_id))
              /\ NotFound(get_result(jobs, job_id))
              /\ NotFound(generate_pdf_response(jobs, job_id))
              /\ \A request \in ApprovalRequests(job_id) :
                    /\ NotFound(approve(jobs, request, now).answer)
                    /\ approve(jobs, request, now).jobs = jobs

\* one job is completed and approved, and its PDF is answered ready; another is
\* approved but failed; a third identifier was never issued
C35_Witness ==
    /\ \E job_id \in DOMAIN jobs :
          /\ generate_pdf_response(jobs, job_id).ok
          /\ generate_pdf_response(jobs, job_id).val.status = "ready"
    /\ \E job_id \in DOMAIN jobs :
          /\ jobs[job_id].status = "failed"
          /\ Get(jobs[job_id], "approved", FALSE)
          /\ ~generate_pdf_response(jobs, job_id).ok
    /\ RequestIds \ DOMAIN jobs # {}

====
